---- MODULE Spec2Model ----
(***************************************************************************)
(* Model of viz_scout.dataset.DatasetLoader: a loader that is constructed  *)
(* over a source string and two optional backend configurations and whose  *)
(* load_images() lists the objects at the selected origin (local           *)
(* directory, S3 bucket, MinIO bucket), keeps those with an image suffix   *)
(* and buffers each of them into a BytesIO stream.                         *)
(*                                                                         *)
(* Strings are sequences of one-character strings, so that startswith,     *)
(* lower, endswith and os.path.join are computed character by character.   *)
(***************************************************************************)
EXTENDS Integers, Sequences, FiniteSets, TLC

\* ------------------------------------------------------------------ bounds
\* Keys returned by one S3 listing page (the service's page size, scaled).
MaxKeys == 2
\* Largest number of objects stored at an origin: one more than a page.
MaxObjects == MaxKeys + 1
\* Number of objects at an origin that is loaded from repeatedly.
RepeatObjects == 2

\* ------------------------------------------------------------------ strings
UpperChars ==
  <<"A","B","C","D","E","F","G","H","I","J","K","L","M",
    "N","O","P","Q","R","S","T","U","V","W","X","Y","Z">>

LowerChars ==
  <<"a","b","c","d","e","f","g","h","i","j","k","l","m",
    "n","o","p","q","r","s","t","u","v","w","x","y","z">>

\* str.lower() on one character: upper-case letters map to their lower-case
\* letter; every other character is left alone.
LowerChar(c) ==
  IF \E i \in 1..Len(UpperChars) : UpperChars[i] = c
  THEN LowerChars[CHOOSE i \in 1..Len(UpperChars) : UpperChars[i] = c]
  ELSE c

\* str.lower()
Lower(s) == [i \in 1..Len(s) |-> LowerChar(s[i])]

\* str.startswith(p)
StartsWith(s, p) == Len(s) >= Len(p) /\ SubSeq(s, 1, Len(p)) = p

\* str.endswith(suf)
EndsWith(s, suf) ==
  Len(s) >= Len(suf) /\ SubSeq(s, Len(s) - Len(suf) + 1, Len(s)) = suf

\* The tuple ('.png', '.jpg', '.jpeg', '.bmp') handed to endswith.
ImageSuffixes ==
  << <<".","p","n","g">>, <<".","j","p","g">>,
     <<".","j","p","e","g">>, <<".","b","m","p">> >>

\* Mutant of IsImage: the suffix test without lower().
IsImage_CaseSensitive(name) ==
  \E i \in 1..Len(ImageSuffixes) : EndsWith(name, ImageSuffixes[i])

\* name.lower().endswith(('.png', '.jpg', '.jpeg', '.bmp'))
IsImage(name) ==
  \E i \in 1..Len(ImageSuffixes) : EndsWith(Lower(name), ImageSuffixes[i])

\* Mutant of join: the key is the bare file name.
join_NameOnly(a, b) == b

\* os.path.join(a, b) on POSIX for two components.
join(a, b) ==
  IF StartsWith(b, <<"/">>) THEN b
  ELSE IF a = <<>> \/ a[Len(a)] = "/" THEN a \o b
  ELSE a \o <<"/">> \o b

\* ------------------------------------------------------------------ inputs
S3Prefix == <<"s","3",":","/","/">>
MinioPrefix == <<"m","i","n","i","o",":","/","/">>

SrcS3 == <<"s","3",":","/","/","b">>
SrcMinio == <<"m","i","n","i","o",":","/","/","b">>
SrcUpperS3 == <<"S","3",":","/","/","b">>
SrcOneSlash == <<"s","3",":","/","b">>
SrcGcs == <<"g","c","s",":","/","/","b">>
SrcDir == <<"d">>
SrcDirSlash == <<"d","/">>
SrcEmpty == <<>>

Sources ==
  {SrcS3, SrcMinio, SrcUpperS3, SrcOneSlash, SrcGcs, SrcDir, SrcDirSlash, SrcEmpty}

\* Object names, in the order a bucket listing returns them (UTF-8 binary
\* order of the keys).
Names ==
  << <<"B",".","P","N","G">>,
     <<"c",".","J","p","E","g">>,
     <<"e",".","b","m","p">>,
     <<"f",".","j","p","g">>,
     <<"g","p","n","g">>,
     <<"p","/","h",".","p","n","g">> >>

NameSet == {Names[i] : i \in 1..Len(Names)}

IndexOf(name) == CHOOSE i \in 1..Len(Names) : Names[i] = name

\* Names that can be directory entries: no path separator inside.
FlatNames == {n \in NameSet : \A i \in 1..Len(n) : n[i] # "/"}

\* The name a local directory may hold as a subdirectory instead of a file.
SubdirName == <<"e",".","b","m","p">>

\* The bytes first stored under a name: distinct per name.
InitBody(name) == [i \in 1..(IndexOf(name) % 3) |-> IndexOf(name) + i]

\* ------------------------------------------------------------------ configs
\* A configuration argument: None, or a dict with the given keys.
None == [present |-> FALSE, keys |-> {}]

Dict(ks) == [present |-> TRUE, keys |-> ks]

\* Python truthiness of a configuration: None and the empty dict are falsy.
Truthy(cfg) == cfg.present /\ cfg.keys # {}

S3Keys == {"bucket", "access_key", "secret_key", "region"}
MinioKeys == {"endpoint", "access_key", "secret_key", "bucket"}

\* Configurations the selected strategy cannot load with.
BadS3Configs == {None, Dict({}), Dict(S3Keys \ {"bucket"}), Dict(S3Keys \ {"region"})}

BadMinioConfigs ==
  {None, Dict({}), Dict(MinioKeys \ {"bucket"}), Dict(MinioKeys \ {"endpoint"})}

\* ------------------------------------------------------------------ outcomes
NoExc == [type |-> "none", at |-> 0, msg |-> ""]

Exc(t, m) == [type |-> t, at |-> 0, msg |-> m]

\* The failure of the n-th external call of an invocation (disk or network).
EnvError(n) == [type |-> "IOError", at |-> n, msg |-> "io"]

Call(op, arg) == [op |-> op, arg |-> arg]

Log(level, msg) == [level |-> level, msg |-> msg]

\* A call that ends by raising e.
Raise(e, calls, logs) ==
  [kind |-> "raise", exc |-> e, raised |-> <<e>>, streams |-> <<>>,
   calls |-> calls, logs |-> logs]

\* A call that ends by returning what it has built.
Return(streams, calls, logs) ==
  [kind |-> "ok", exc |-> NoExc, raised |-> <<>>, streams |-> streams,
   calls |-> calls, logs |-> logs]

\* Mutant of Reraise: the handler logs and returns an empty mapping.
Reraise_Swallow(o, msg) ==
  IF o.kind = "raise"
  THEN [o EXCEPT !.kind = "ok", !.exc = NoExc, !.logs = Append(@, Log("error", msg))]
  ELSE o

\* except Exception as e: logging.error(...); raise
Reraise(o, msg) ==
  IF o.kind = "raise"
  THEN [o EXCEPT !.logs = Append(@, Log("error", msg))]
  ELSE o

\* ------------------------------------------------------------------ streams
\* BytesIO(initial): the buffer holds initial, the position is 0.
BytesIO(initial) == [type |-> "BytesIO", buf |-> initial, pos |-> 0]

\* stream.write(data) at the current position of a stream positioned at its end.
Write(stream, data) ==
  [stream EXCEPT !.buf = SubSeq(@, 1, stream.pos) \o data,
                 !.pos = stream.pos + Len(data)]

\* stream.seek(offset)
Seek(stream, offset) == [stream EXCEPT !.pos = offset]

\* stream.read(n)
Read(stream, n) ==
  [stream EXCEPT !.pos = IF stream.pos + n > Len(stream.buf)
                         THEN IF stream.pos > Len(stream.buf) THEN stream.pos
                              ELSE Len(stream.buf)
                         ELSE stream.pos + n]

\* ------------------------------------------------------------------ origin
\* The names stored at the origin, in listing order of the keys.
SortedListing(objs) == SelectSeq(Names, LAMBDA n : n \in DOMAIN objs)

\* Mutant of FirstPage: the listing follows the continuation token to the end.
FirstPage_Paginated(listing) == listing

\* The keys one list_objects_v2 response carries: at most one page.
FirstPage(listing) ==
  IF Len(listing) > MaxKeys THEN SubSeq(listing, 1, MaxKeys) ELSE listing

\* Prefix and suffix log records of a strategy around its outcome.
WithLogs(o, pre, post) ==
  [o EXCEPT !.logs = pre \o @ \o (IF o.kind = "ok" THEN post ELSE <<>>)]

\* ------------------------------------------------------------------ local
\* load_file(file): open, read everything into a BytesIO, seek(0).
load_file(objs, file) == Seek(BytesIO(objs[file].body), 0)

RECURSIVE LocalLoop(_, _, _, _, _, _)
\* The dict comprehension of _load_from_local over image_files.
LocalLoop(src, objs, todo, fault, streams, calls) ==
  IF todo = <<>> THEN Return(streams, calls, <<>>)
  ELSE LET file == Head(todo)
           path == join(src, file)
           n == Len(calls) + 1
           calls2 == Append(calls, Call("open", path))
       IN  IF fault = n THEN Raise(EnvError(n), calls2, <<>>)
           ELSE IF objs[file].isdir
           THEN Raise(Exc("IsADirectoryError", "open"), calls2, <<>>)
           ELSE LocalLoop(src, objs, Tail(todo), fault,
                          Append(streams, [key |-> path, stream |-> load_file(objs, file)]),
                          calls2)

\* The body of the try block of _load_from_local.
LocalBody(src, kind, objs, order, fault) ==
  LET calls1 == <<Call("exists", src)>>
      calls2 == Append(calls1, Call("listdir", src))
  IN  IF kind = "none"
      THEN Raise(Exc("ValueError", "Local path does not exist"), calls1, <<>>)
      ELSE WithLogs(
             IF fault = 2 THEN Raise(EnvError(2), calls2, <<>>)
             ELSE IF kind # "dir"
             THEN Raise(Exc("NotADirectoryError", "listdir"), calls2, <<>>)
             ELSE LocalLoop(src, objs, SelectSeq(order, IsImage), fault, <<>>, calls2),
             <<Log("info", "Loading images from local directory")>>,
             <<Log("info", "Successfully loaded images from local directory")>>)

\* Mutant of _load_from_local: the existence check is missing.
_load_from_local_NoCheck(src, kind, objs, order, fault) ==
  Reraise(LocalBody(src, "dir", objs, order, fault),
          "Error loading images from local directory")

_load_from_local(src, kind, objs, order, fault) ==
  Reraise(LocalBody(src, kind, objs, order, fault),
          "Error loading images from local directory")

\* ------------------------------------------------------------------ S3
RECURSIVE S3Loop(_, _, _, _, _)
\* The for loop of _load_from_s3 over the listed objects.
S3Loop(objs, todo, fault, streams, calls) ==
  IF todo = <<>> THEN Return(streams, calls, <<>>)
  ELSE LET key == Head(todo)
           n == Len(calls) + 1
           calls2 == Append(calls, Call("download_fileobj", key))
       IN  IF ~IsImage(key) THEN S3Loop(objs, Tail(todo), fault, streams, calls)
           ELSE IF fault = n THEN Raise(EnvError(n), calls2, <<>>)
           ELSE S3Loop(objs, Tail(todo), fault,
                       Append(streams,
                              [key |-> key,
                               stream |-> Seek(Write(BytesIO(<<>>), objs[key].body), 0)]),
                       calls2)

\* The first key among ks, in the order given, that cfg lacks.
MissingKey(cfg, ks) ==
  LET missing == {i \in 1..Len(ks) : ks[i] \notin cfg.keys}
  IN  IF missing = {} THEN "" ELSE ks[CHOOSE i \in missing : \A j \in missing : i <= j]

\* The body of the try block of _load_from_s3.
S3Body(cfg, objs, fault) ==
  LET initLog == <<Log("info", "Initializing S3 client...")>>
      absent == MissingKey(cfg, <<"access_key", "secret_key", "region">>)
      calls1 == <<Call("boto3.client", <<>>)>>
      calls2 == Append(calls1, Call("list_objects_v2", <<"b">>))
      listLog == Append(initLog, Log("info", "Listing objects in S3 bucket"))
  IN  IF ~Truthy(cfg)
      THEN Raise(Exc("ValueError", "S3 configuration is required for loading from S3."),
                 <<>>, <<>>)
      ELSE IF absent # "" THEN Raise(Exc("KeyError", absent), <<>>, initLog)
      ELSE IF "bucket" \notin cfg.keys THEN Raise(Exc("KeyError", "bucket"), calls1, initLog)
      ELSE IF fault = 2 THEN Raise(EnvError(2), calls2, listLog)
      ELSE WithLogs(S3Loop(objs, FirstPage(SortedListing(objs)), fault, <<>>, calls2),
                    listLog,
                    <<Log("info", "Successfully loaded images from S3 bucket.")>>)

\* Mutant of _load_from_s3: the configuration check comes after the client is made.
_load_from_s3_LateCheck(cfg, objs, fault) ==
  Reraise(IF ~Truthy(cfg)
          THEN Raise(Exc("ValueError", "S3 configuration is required for loading from S3."),
                     <<Call("boto3.client", <<>>)>>, <<>>)
          ELSE S3Body(cfg, objs, fault),
          "Error loading images from S3")

_load_from_s3(cfg, objs, fault) ==
  Reraise(S3Body(cfg, objs, fault), "Error loading images from S3")

\* ------------------------------------------------------------------ MinIO
\* Minio.fget_object(bucket, key, file_path): file_path names the file on disk
\* the object is written to; any other kind of value is rejected by the
\* path functions the library hands it to.
fget_object(objs, key, file_path) ==
  IF file_path.type = "str" THEN NoExc ELSE Exc("TypeError", "file_path")

RECURSIVE MinioLoop(_, _, _, _, _, _)
\* The for loop of _load_from_minio over the lazily listed objects: the
\* iterator asks for a page of keys before the first object and each time a
\* truncated page is exhausted.
MinioLoop(objs, listing, i, fault, streams, calls) ==
  LET needPage == i = 1 \/ ((i - 1) % MaxKeys = 0 /\ i <= Len(listing))
      nPage == Len(calls) + 1
      calls1 == IF needPage THEN Append(calls, Call("list_objects", <<"b">>)) ELSE calls
  IN  IF needPage /\ fault = nPage THEN Raise(EnvError(nPage), calls1, <<>>)
      ELSE IF i > Len(listing) THEN Return(streams, calls1, <<>>)
      ELSE LET key == listing[i]
               n == Len(calls1) + 1
               calls2 == Append(calls1, Call("fget_object", key))
               file_stream == BytesIO(<<>>)
               thrown == fget_object(objs, key, file_stream)
           IN  IF ~IsImage(key)
               THEN MinioLoop(objs, listing, i + 1, fault, streams, calls1)
               ELSE IF fault = n THEN Raise(EnvError(n), calls2, <<>>)
               ELSE IF thrown # NoExc THEN Raise(thrown, calls2, <<>>)
               ELSE MinioLoop(objs, listing, i + 1, fault,
                              Append(streams,
                                     [key |-> key, stream |-> Seek(file_stream, 0)]),
                              calls2)

\* The body of the try block of _load_from_minio.
MinioBody(cfg, objs, fault) ==
  LET initLog == <<Log("info", "Initializing MinIO client...")>>
      absent == MissingKey(cfg, <<"endpoint", "access_key", "secret_key">>)
      calls1 == <<Call("Minio", <<>>)>>
      listLog == Append(initLog, Log("info", "Listing objects in MinIO bucket"))
  IN  IF ~Truthy(cfg)
      THEN Raise(Exc("ValueError", "MinIO configuration is required for loading from MinIO."),
                 <<>>, <<>>)
      ELSE IF absent # "" THEN Raise(Exc("KeyError", absent), <<>>, initLog)
      ELSE IF "bucket" \notin cfg.keys THEN Raise(Exc("KeyError", "bucket"), calls1, initLog)
      ELSE WithLogs(MinioLoop(objs, SortedListing(objs), 1, fault, <<>>, calls1),
                    listLog,
                    <<Log("info", "Successfully loaded images from MinIO bucket.")>>)

_load_from_minio(cfg, objs, fault) ==
  Reraise(MinioBody(cfg, objs, fault), "Error loading images from MinIO")

\* ------------------------------------------------------------------ dispatch
\* Mutant of load_images: the scheme is compared without regard to case.
load_images_AnyCase(src, s3cfg, miniocfg, kind, objs, order, fault) ==
  Reraise(IF StartsWith(Lower(src), S3Prefix) THEN _load_from_s3(s3cfg, objs, fault)
          ELSE IF StartsWith(Lower(src), MinioPrefix) THEN _load_from_minio(miniocfg, objs, fault)
          ELSE _load_from_local(src, kind, objs, order, fault),
          "Error loading images")

load_images(src, s3cfg, miniocfg, kind, objs, order, fault) ==
  Reraise(IF StartsWith(src, S3Prefix) THEN _load_from_s3(s3cfg, objs, fault)
          ELSE IF StartsWith(src, MinioPrefix) THEN _load_from_minio(miniocfg, objs, fault)
          ELSE _load_from_local(src, kind, objs, order, fault),
          "Error loading images")

\* ------------------------------------------------------------------ state
VARIABLES
  source,        \* self.source
  minio_config,  \* self.minio_config
  s3_config,     \* self.s3_config
  pathKind,      \* what the filesystem holds at the path source: none, file, dir
  objects,       \* the objects at the origin source designates: name -> [isdir, body]
  heap,          \* the BytesIO objects the caller holds, by identity
  results,       \* what the latest load_images() calls ended with, oldest first
  lastLog        \* the record the logging module wrote last

vars == <<source, minio_config, s3_config, pathKind, objects, heap, results, lastLog>>

IsRemote(src) == StartsWith(src, S3Prefix) \/ StartsWith(src, MinioPrefix)

\* The object stores over the names of pool: a local directory may hold
\* SubdirName as a subdirectory, a bucket holds plain objects only.
StoresOver(src, pool, sizes) ==
  UNION {
    { [n \in S |-> [isdir |-> n \in D, body |-> InitBody(n)]] :
        D \in {D \in SUBSET (S \cap {SubdirName}) : IsRemote(src) => D = {}} } :
    S \in {S \in SUBSET pool : Cardinality(S) \in sizes} }

\* The object stores an origin can hold: at most MaxObjects names, flat ones
\* in a local directory.
Stores(src) ==
  StoresOver(src, IF IsRemote(src) THEN NameSet ELSE FlatNames, 0..MaxObjects)

EmptyStore == [n \in {} |-> [isdir |-> FALSE, body |-> <<>>]]

\* A loader over a directory path, with what the filesystem holds there.
InitLocalDir ==
  /\ source \in {SrcDir, SrcDirSlash}
  /\ s3_config = None
  /\ minio_config = None
  /\ pathKind = "dir"
  /\ objects \in Stores(source)

\* A loader over a path that is no directory, or is not there at all.
InitLocalOther ==
  /\ source \in Sources
  /\ ~IsRemote(source)
  /\ s3_config \in {None, Dict(S3Keys)}
  /\ minio_config \in {None, Dict(MinioKeys)}
  /\ pathKind \in (IF source = SrcEmpty THEN {"none"} ELSE {"none", "file"})
  /\ objects = EmptyStore

\* A loader over a bucket it is configured for.
InitRemoteConfigured ==
  /\ source \in {SrcS3, SrcMinio}
  /\ s3_config = (IF source = SrcS3 THEN Dict(S3Keys) ELSE None)
  /\ minio_config = (IF source = SrcMinio THEN Dict(MinioKeys) ELSE None)
  /\ pathKind = "none"
  /\ objects \in Stores(source)

\* A loader over a bucket whose configuration is missing or incomplete.
InitRemoteUnconfigured ==
  /\ source \in {SrcS3, SrcMinio}
  /\ s3_config \in (IF source = SrcS3 THEN BadS3Configs ELSE {None, Dict(S3Keys)})
  /\ minio_config \in (IF source = SrcMinio THEN BadMinioConfigs ELSE {None, Dict(MinioKeys)})
  /\ pathKind = "none"
  /\ objects \in {st \in Stores(source) : Cardinality(DOMAIN st) = 1}

\* __init__ stores its three arguments; nothing else happens at construction.
Init ==
  /\ InitLocalDir \/ InitLocalOther \/ InitRemoteConfigured \/ InitRemoteUnconfigured
  /\ heap = <<>>
  /\ results = <<>>
  /\ lastLog = Log("none", "")

\* The names the origins of repeated loads are filled from.
RepeatOrder == <<1, 2, 5, 6, 3, 4>>

RepeatPool ==
  {Names[RepeatOrder[i]] : i \in {j \in 1..Len(RepeatOrder) : j <= RepeatObjects + 1}}

\* A loader that is called again and again: over a full directory or a full
\* bucket it is configured for, or over a bucket it has no configuration for.
InitRepeat ==
  /\ source \in {SrcDir, SrcS3, SrcMinio}
  /\ s3_config \in (IF source = SrcS3 THEN {Dict(S3Keys), None} ELSE {None})
  /\ minio_config \in (IF source = SrcMinio THEN {Dict(MinioKeys)} ELSE {None})
  /\ pathKind = (IF source = SrcDir THEN "dir" ELSE "none")
  /\ objects \in StoresOver(source, RepeatPool \cap (IF IsRemote(source) THEN NameSet ELSE FlatNames),
                            IF Truthy(s3_config) \/ source # SrcS3 THEN {RepeatObjects} ELSE {1})
  /\ heap = <<>>
  /\ results = <<>>
  /\ lastLog = Log("none", "")

\* Ordinals of the external call the environment may fail in one invocation
\* (0: none): no strategy makes more than two calls besides one per object.
FaultPoints(objs) == 0..(Cardinality(DOMAIN objs) + 2)

Reverse(q) == [i \in 1..Len(q) |-> q[Len(q) + 1 - i]]

\* The orders in which os.listdir may answer: the entries as sorted, or reversed.
ListdirOrders(objs) == {SortedListing(objs), Reverse(SortedListing(objs))}

\* Mutant of FilesOf: the streams of the mapping are numbered from 1 whatever
\* the caller already holds, so that a later mapping shares streams with an
\* earlier one.
FilesOf_Shared(streams, base) ==
  [k \in {streams[i].key : i \in 1..Len(streams)} |->
     CHOOSE i \in 1..Len(streams) :
       /\ streams[i].key = k
       /\ \A j \in 1..Len(streams) : streams[j].key = k => j <= i]

\* The mapping a strategy returns: each key bound to the stream stored last
\* under it, the streams being new objects numbered from base + 1 in order
\* of creation.
FilesOf(streams, base) ==
  [k \in {streams[i].key : i \in 1..Len(streams)} |->
     base + (CHOOSE i \in 1..Len(streams) :
               /\ streams[i].key = k
               /\ \A j \in 1..Len(streams) : streams[j].key = k => j <= i)]

\* The identities of the streams a result refers to.
StreamIds(r) == {r.files[k] : k \in DOMAIN r.files}

\* The caller keeps the two latest results; when a third arrives it lets go of
\* the oldest, whose streams are collected. Rank renumbers the streams kept.
Kept == IF Len(results) = 2 THEN StreamIds(results[2])
        ELSE UNION {StreamIds(results[i]) : i \in 1..Len(results)}

Rank(id) == Cardinality({j \in Kept : j <= id})

KeptHeap == [i \in 1..Cardinality(Kept) |-> heap[CHOOSE id \in Kept : Rank(id) = i]]

KeptResults ==
  IF Len(results) = 2
  THEN <<[results[2] EXCEPT !.files = [k \in DOMAIN @ |-> Rank(@[k])]]>>
  ELSE results

\* One call of load_images(): the environment picks the order os.listdir
\* answers in and the external call that fails, if any.
LoadImages ==
  /\ \E fault \in FaultPoints(objects) :
     \E order \in (IF IsRemote(source) THEN {SortedListing(objects)}
                   ELSE ListdirOrders(objects)) :
       LET o == load_images(source, s3_config, minio_config, pathKind, objects, order, fault)
           base == IF Len(results) = 2 THEN Cardinality(Kept) ELSE Len(heap)
       IN  /\ results' = Append(KeptResults,
                                [kind |-> o.kind, exc |-> o.exc, raised |-> o.raised,
                                 files |-> FilesOf(o.streams, base),
                                 calls |-> o.calls, logs |-> o.logs,
                                 seen |-> objects])
           /\ heap' = (IF Len(results) = 2 THEN KeptHeap ELSE heap)
                        \o [i \in 1..Len(o.streams) |-> o.streams[i].stream]
           /\ lastLog' = o.logs[Len(o.logs)]
  /\ UNCHANGED <<source, minio_config, s3_config, pathKind, objects>>

\* The first call of load_images() on a new loader.
LoadFirst ==
  /\ results = <<>>
  /\ LoadImages

CleanupLog == Log("info", "No cleanup actions required for the current implementation.")

\* Mutant of Cleanup: the hook also drops the configurations.
Cleanup_Reset ==
  /\ lastLog' = CleanupLog
  /\ s3_config' = None
  /\ minio_config' = None
  /\ UNCHANGED <<source, pathKind, objects, heap, results>>

\* cleanup(): one log record, nothing else.
Cleanup ==
  /\ lastLog' = CleanupLog
  /\ UNCHANGED <<source, minio_config, s3_config, pathKind, objects, heap, results>>

\* The caller reads a stream of the oldest result it holds to its end.
ReadStream ==
  /\ results # <<>>
  /\ \E k \in DOMAIN results[1].files :
       heap' = [heap EXCEPT ![results[1].files[k]] = Read(@, Len(@.buf))]
  /\ UNCHANGED <<source, minio_config, s3_config, pathKind, objects, results, lastLog>>

\* The environment removes an object from the origin.
MutateOrigin ==
  /\ \E n \in DOMAIN objects :
       objects' = [m \in DOMAIN objects \ {n} |-> objects[m]]
  /\ UNCHANGED <<source, minio_config, s3_config, pathKind, heap, results, lastLog>>

\* A loader that is constructed and called once.
Next == LoadFirst \/ Cleanup

Spec == Init /\ [][Next]_vars

\* A loader that is called repeatedly while the caller reads what it was
\* handed and the origin loses objects.
NextRepeat == LoadImages \/ Cleanup \/ ReadStream \/ MutateOrigin

SpecRepeat == InitRepeat /\ [][NextRepeat]_vars

\* ------------------------------------------------------------------ claims
Results == {results[i] : i \in 1..Len(results)}

\* The strategy a source asks for, read off its first characters.
ExpectedStrategy(src) ==
  IF Len(src) >= 5 /\ <<src[1], src[2], src[3], src[4], src[5]>> = <<"s","3",":","/","/">>
  THEN "S3"
  ELSE IF Len(src) >= 8
          /\ <<src[1], src[2], src[3], src[4], src[5], src[6], src[7], src[8]>>
               = <<"m","i","n","i","o",":","/","/">>
  THEN "MinIO"
  ELSE "Local"

\* The log records only one strategy writes.
StrategyMsgs(x) ==
  CASE x = "S3" ->
         {"Initializing S3 client...", "Listing objects in S3 bucket",
          "Successfully loaded images from S3 bucket.", "Error loading images from S3"}
    [] x = "MinIO" ->
         {"Initializing MinIO client...", "Listing objects in MinIO bucket",
          "Successfully loaded images from MinIO bucket.", "Error loading images from MinIO"}
    [] x = "Local" ->
         {"Loading images from local directory",
          "Successfully loaded images from local directory",
          "Error loading images from local directory"}

\* The strategies that left a record in the log of a call.
RanStrategies(r) ==
  {x \in {"S3", "MinIO", "Local"} : \E i \in 1..Len(r.logs) : r.logs[i].msg \in StrategyMsgs(x)}

\* The names with one of the four image suffixes in any letter case, spelled out.
HasImageSuffix(n) ==
  LET low == Lower(n)
      last(k) == IF Len(low) >= k THEN SubSeq(low, Len(low) - k + 1, Len(low)) ELSE <<>>
  IN  \/ last(4) \in {<<".","p","n","g">>, <<".","j","p","g">>, <<".","b","m","p">>}
      \/ last(5) = <<".","j","p","e","g">>

\* The names one call found listed at the origin: the whole directory, the
\* whole bucket for MinIO, the first MaxKeys keys of the bucket for S3.
Listed(r) ==
  IF ExpectedStrategy(source) = "S3"
  THEN {n \in DOMAIN r.seen :
          Cardinality({m \in DOMAIN r.seen : IndexOf(m) < IndexOf(n)}) < MaxKeys}
  ELSE DOMAIN r.seen

\* The key a listed name is returned under.
Ident(n) ==
  IF ExpectedStrategy(source) # "Local" THEN n
  ELSE IF source[Len(source)] = "/" THEN source \o n
  ELSE source \o <<"/">> \o n

\* C1: every call runs exactly one strategy: S3 iff the source starts with
\* "s3://", MinIO iff it starts with "minio://", Local for any other string.
C1_Dispatch ==
  \A r \in Results : RanStrategies(r) = {ExpectedStrategy(source)}

C1_Witness ==
  /\ source = SrcUpperS3
  /\ \E r \in Results : RanStrategies(r) = {"Local"}

\* C2: whenever a call returns a mapping, its keys are exactly the listed
\* objects whose lowercased name ends with .png, .jpg, .jpeg or .bmp.
C2_KeysAreListedImages ==
  \A r \in Results :
    r.kind = "ok" => DOMAIN r.files = {Ident(n) : n \in {m \in Listed(r) : HasImageSuffix(m)}}

C2_Witness ==
  \E r \in Results :
    /\ r.kind = "ok"
    /\ Names[1] \in Listed(r) /\ Ident(Names[1]) \in DOMAIN r.files
    /\ Names[2] \in Listed(r) /\ Ident(Names[2]) \in DOMAIN r.files
    /\ Names[5] \in Listed(r)

\* C3: over a local directory a returned mapping has one entry per file with
\* an image suffix, keyed by the joined path, whose stream holds the bytes of
\* the file and stands at offset 0; and the call returns unless a disk call
\* fails or an image-named entry is a subdirectory.
C3_LocalExact ==
  \A r \in Results :
    (ExpectedStrategy(source) = "Local" /\ pathKind = "dir") =>
      LET images == {n \in DOMAIN r.seen : HasImageSuffix(n)}
      IN  /\ r.kind = "ok" =>
               /\ Cardinality(DOMAIN r.files) = Cardinality(images)
               /\ Cardinality(StreamIds(r)) = Cardinality(images)
               /\ \A n \in images :
                    /\ Ident(n) \in DOMAIN r.files
                    /\ heap[r.files[Ident(n)]].buf = r.seen[n].body
                    /\ heap[r.files[Ident(n)]].pos = 0
          /\ (r.exc.type # "IOError" /\ \A n \in images : ~r.seen[n].isdir) => r.kind = "ok"

C3_Witness ==
  \E r \in Results :
    /\ source = SrcDir /\ pathKind = "dir" /\ r.kind = "ok"
    /\ DOMAIN r.seen = {Names[1], Names[2], Names[5]}
    /\ DOMAIN r.files = {<<"d","/">> \o Names[1], <<"d","/">> \o Names[2]}
    /\ heap[r.files[<<"d","/">> \o Names[2]]].buf = <<3, 4>>

\* C4: a remote source whose own configuration is None fails with ValueError
\* before any client is made or any call is sent, whatever the other
\* origin's configuration is.
C4_MissingConfig ==
  \A r \in Results :
    /\ (ExpectedStrategy(source) = "S3" /\ ~s3_config.present) =>
         /\ r.kind = "raise" /\ r.exc.type = "ValueError"
         /\ r.exc.msg = "S3 configuration is required for loading from S3."
         /\ r.calls = <<>> /\ DOMAIN r.files = {}
    /\ (ExpectedStrategy(source) = "MinIO" /\ ~minio_config.present) =>
         /\ r.kind = "raise" /\ r.exc.type = "ValueError"
         /\ r.exc.msg = "MinIO configuration is required for loading from MinIO."
         /\ r.calls = <<>> /\ DOMAIN r.files = {}

C4_Witness ==
  /\ source = SrcS3 /\ s3_config = None /\ minio_config = Dict(MinioKeys)
  /\ \E r \in Results : r.exc.type = "ValueError"

\* C5: a local source whose path does not exist fails with ValueError, hands
\* back no mapping, and has made no call but the existence check.
C5_MissingPath ==
  \A r \in Results :
    (ExpectedStrategy(source) = "Local" /\ pathKind = "none") =>
      /\ r.kind = "raise" /\ r.exc.type = "ValueError"
      /\ r.exc.msg = "Local path does not exist"
      /\ DOMAIN r.files = {}
      /\ r.calls = <<Call("exists", source)>>

C5_Witness ==
  /\ source = SrcGcs /\ pathKind = "none"
  /\ \E r \in Results : r.kind = "raise" /\ r.exc.type = "ValueError"

\* C6: a call in which anything raised ends by raising that very exception,
\* hands back no mapping, has made no call twice and has logged the error;
\* a mapping that is returned holds every listed image.
C6_AllOrNothing ==
  \A r \in Results :
    /\ r.raised # <<>> =>
         /\ r.kind = "raise" /\ Len(r.raised) = 1 /\ r.exc = r.raised[1]
         /\ DOMAIN r.files = {}
         /\ \A i, j \in 1..Len(r.calls) : r.calls[i] = r.calls[j] => i = j
         /\ r.logs[Len(r.logs)] = Log("error", "Error loading images")
    /\ r.kind = "raise" => r.raised # <<>>
    /\ r.kind = "ok" =>
         \A n \in Listed(r) : HasImageSuffix(n) => Ident(n) \in DOMAIN r.files

C6_Witness ==
  \E r \in Results :
    /\ ExpectedStrategy(source) = "Local"
    /\ r.kind = "raise" /\ r.exc = EnvError(4)
    /\ Len(r.calls) = 4 /\ r.calls[3].op = "open" /\ r.calls[4].op = "open"

\* The keys of a bucket that an S3 listing returns only on a later page.
LaterPage(r) ==
  {n \in DOMAIN r.seen :
     Cardinality({m \in DOMAIN r.seen : IndexOf(m) < IndexOf(n)}) >= MaxKeys}

\* C7: an S3 call lists the bucket at most once, exactly once when it
\* returns; what it returns are the images among the first MaxKeys keys, and
\* a key of a later page is neither returned nor downloaded.
C7_FirstPageOnly ==
  \A r \in Results :
    ExpectedStrategy(source) = "S3" =>
      /\ Cardinality({i \in 1..Len(r.calls) : r.calls[i].op = "list_objects_v2"}) <= 1
      /\ r.kind = "ok" => \E i \in 1..Len(r.calls) : r.calls[i].op = "list_objects_v2"
      /\ \A n \in LaterPage(r) :
           /\ n \notin DOMAIN r.files
           /\ \A i \in 1..Len(r.calls) : r.calls[i] # Call("download_fileobj", n)
      /\ r.kind = "ok" =>
           DOMAIN r.files = {n \in DOMAIN r.seen \ LaterPage(r) : HasImageSuffix(n)}

C7_Witness ==
  \E r \in Results :
    /\ ExpectedStrategy(source) = "S3" /\ r.kind = "ok"
    /\ \E n \in LaterPage(r) : HasImageSuffix(n)
    /\ DOMAIN r.files # {}

\* C8: a MinIO call that no network failure interrupts returns every image
\* of the bucket at every depth under its full object name, each stream
\* holding the object's bytes and standing at offset 0.
C8_MinioReturnsAll ==
  \A r \in Results :
    (ExpectedStrategy(source) = "MinIO" /\ minio_config = Dict(MinioKeys)
       /\ r.exc.type # "IOError") =>
      /\ r.kind = "ok"
      /\ DOMAIN r.files = {n \in DOMAIN r.seen : HasImageSuffix(n)}
      /\ \A n \in DOMAIN r.files :
           heap[r.files[n]].buf = r.seen[n].body /\ heap[r.files[n]].pos = 0

\* The calls by which a strategy lists its origin and fetches one object.
ListOps == {"listdir", "list_objects_v2", "list_objects"}

FetchOps == {"open", "download_fileobj", "fget_object"}

\* C9: two calls that return over the same origin return equal key sets and
\* equal bytes per key; every returned mapping comes from a listing and one
\* fetch per key made in its own call; the two mappings share no stream, and
\* the streams of the later one hold the origin's bytes at offset 0 whatever
\* the caller has read from the earlier one.
C9_FreshAndEqual ==
  /\ \A r \in Results :
       r.kind = "ok" =>
         /\ \E i \in 1..Len(r.calls) : r.calls[i].op \in ListOps
         /\ \A k \in DOMAIN r.files :
              \E i \in 1..Len(r.calls) : r.calls[i].op \in FetchOps /\ r.calls[i].arg = k
  /\ Len(results) = 2 =>
       /\ StreamIds(results[1]) \cap StreamIds(results[2]) = {}
       /\ results[2].kind = "ok" =>
            \A n \in {m \in Listed(results[2]) : HasImageSuffix(m)} :
              /\ Ident(n) \in DOMAIN results[2].files
              /\ heap[results[2].files[Ident(n)]].buf = results[2].seen[n].body
              /\ heap[results[2].files[Ident(n)]].pos = 0
       /\ (results[1].kind = "ok" /\ results[2].kind = "ok"
             /\ results[1].seen = results[2].seen) =>
            /\ DOMAIN results[1].files = DOMAIN results[2].files
            /\ \A k \in DOMAIN results[1].files :
                 heap[results[1].files[k]].buf = heap[results[2].files[k]].buf

C9_Witness ==
  /\ Len(results) = 2
  /\ results[1].kind = "ok" /\ results[2].kind = "ok"
  /\ results[1].seen = results[2].seen
  /\ \E k \in DOMAIN results[1].files :
       /\ heap[results[1].files[k]].pos > 0
       /\ heap[results[2].files[k]].pos = 0

\* C10: a new loader has made no call; no step changes source, minio_config
\* or s3_config; and a step that writes the cleanup record changes nothing
\* but the log.
C10_LoaderFrame ==
  /\ (results = <<>> /\ heap = <<>>)
  /\ [][/\ <<source, minio_config, s3_config>>' = <<source, minio_config, s3_config>>
        /\ (lastLog' = CleanupLog /\ lastLog # CleanupLog) =>
             UNCHANGED <<pathKind, objects, heap, results>>]_vars

C10_Witness ==
  /\ source = SrcS3 /\ s3_config = Dict(S3Keys)
  /\ lastLog = CleanupLog
  /\ Len(results) = 2
  /\ results[1].kind = "raise" /\ results[2].kind = "ok"
  /\ DOMAIN results[2].files # {}

====
